---- MODULE Spec2Model ----
(***************************************************************************)
(* Model of graphviz/backend/rendering.py: the command builder `command`   *)
(* and the five rendering operations render, pipe, pipe_string,            *)
(* pipe_lines and pipe_lines_string, each of which builds an invocation    *)
(* and hands it to the process runner execute.run_check.                   *)
(*                                                                         *)
(* A Python str is a sequence of one-character strings, a bytes object a   *)
(* sequence of integers 0..255, a list a sequence.                         *)
(***************************************************************************)
EXTENDS Integers, Sequences, FiniteSets, TLC

VARIABLES
    pc,          \* "idle" | "running" (inside execute.run_check) | "done"
    op,          \* the operation of the current call
    args,        \* the arguments of the current call
    frame,       \* the local variables of the current call
    runnerCalls, \* the calls of execute.run_check made by the current call
    input_pos,   \* items pulled so far from the caller's input_lines iterator
    requested,   \* requests of the runner its input_lines payload has answered
    delivered,   \* items the runner has received from its input_lines payload
    proc,        \* what execute.run_check ended with, once it has ended
    outcome,     \* what the current call handed back to its caller
    lastCmd,     \* the invocation the runner was handed last, by an earlier call
    module       \* the module attributes of rendering.py

vars == <<pc, op, args, frame, runnerCalls, input_pos, requested, delivered,
          proc, outcome, lastCmd, module>>

-----------------------------------------------------------------------------
(* Bounds of the model *)

MaxPathLen == 2
MaxLines == 2

-----------------------------------------------------------------------------
(* Python values *)

None == <<"<None>">>

NoError == [type |-> "none", what |-> "", value |-> None]

RECURSIVE join(_, _)
join(sep, items) ==
    IF Len(items) = 0 THEN <<>>
    ELSE IF Len(items) = 1 THEN items[1]
    ELSE items[1] \o sep \o join(sep, Tail(items))

NotNone(items) == SelectSeq(items, LAMBDA f : f # None)

Range(s) == {s[i] : i \in 1..Len(s)}

-----------------------------------------------------------------------------
(* Module attributes *)

DOT_BINARY == <<"d", "o", "t">>

ENGINES == {<<"d", "o", "t">>, <<"n", "e", "a", "t", "o">>}

FORMATS == {<<"s", "v", "g">>, <<"p", "n", "g">>}

RENDERERS == {<<"c", "a", "i", "r", "o">>}

FORMATTERS == {<<"c", "a", "i", "r", "o">>, <<"g", "d">>}

ModuleInit ==
    [DOT_BINARY |-> DOT_BINARY, ENGINES |-> ENGINES, FORMATS |-> FORMATS,
     RENDERERS |-> RENDERERS, FORMATTERS |-> FORMATTERS]

-----------------------------------------------------------------------------
(* command *)

Raise(type, what, value) == [type |-> type, what |-> what, value |-> value]

output_format_reversed(format_, renderer, formatter) ==
    NotNone(<<formatter, renderer, format_>>)

output_format(format_, renderer, formatter) ==
    NotNone(<<format_, renderer, formatter>>)

output_format_flag(format_, renderer, formatter) ==
    join(<<":">>, output_format(format_, renderer, formatter))

command_tokens(engine, format_, renderer, formatter) ==
    << module.DOT_BINARY,
       <<"-", "K">> \o engine,
       <<"-", "T">> \o output_format_flag(format_, renderer, formatter) >>

command_registry_first(engine, format_, renderer, formatter) ==
    IF engine \notin module.ENGINES
    THEN [raised |-> Raise("ValueError", "unknown engine", engine), value |-> <<>>]
    ELSE IF format_ \notin module.FORMATS
    THEN [raised |-> Raise("ValueError", "unknown format", format_), value |-> <<>>]
    ELSE IF renderer # None /\ renderer \notin module.RENDERERS
    THEN [raised |-> Raise("ValueError", "unknown renderer", renderer), value |-> <<>>]
    ELSE IF formatter # None /\ formatter \notin module.FORMATTERS
    THEN [raised |-> Raise("ValueError", "unknown formatter", formatter), value |-> <<>>]
    ELSE IF formatter # None /\ renderer = None
    THEN [raised |-> Raise("RequiredArgumentError", "formatter given without renderer", None),
          value |-> <<>>]
    ELSE [raised |-> NoError,
          value |-> command_tokens(engine, format_, renderer, formatter)]

command_no_formatter_check(engine, format_, renderer, formatter) ==
    IF formatter # None /\ renderer = None
    THEN [raised |-> Raise("RequiredArgumentError", "formatter given without renderer", None),
          value |-> <<>>]
    ELSE IF engine \notin module.ENGINES
    THEN [raised |-> Raise("ValueError", "unknown engine", engine), value |-> <<>>]
    ELSE IF format_ \notin module.FORMATS
    THEN [raised |-> Raise("ValueError", "unknown format", format_), value |-> <<>>]
    ELSE IF renderer # None /\ renderer \notin module.RENDERERS
    THEN [raised |-> Raise("ValueError", "unknown renderer", renderer), value |-> <<>>]
    ELSE [raised |-> NoError,
          value |-> command_tokens(engine, format_, renderer, formatter)]

command_no_engine_check(engine, format_, renderer, formatter) ==
    IF formatter # None /\ renderer = None
    THEN [raised |-> Raise("RequiredArgumentError", "formatter given without renderer", None),
          value |-> <<>>]
    ELSE IF format_ \notin module.FORMATS
    THEN [raised |-> Raise("ValueError", "unknown format", format_), value |-> <<>>]
    ELSE IF renderer # None /\ renderer \notin module.RENDERERS
    THEN [raised |-> Raise("ValueError", "unknown renderer", renderer), value |-> <<>>]
    ELSE IF formatter # None /\ formatter \notin module.FORMATTERS
    THEN [raised |-> Raise("ValueError", "unknown formatter", formatter), value |-> <<>>]
    ELSE [raised |-> NoError,
          value |-> command_tokens(engine, format_, renderer, formatter)]

command_cached(engine, format_, renderer, formatter) ==
    IF formatter # None /\ renderer = None
    THEN [raised |-> Raise("RequiredArgumentError", "formatter given without renderer", None),
          value |-> <<>>]
    ELSE IF engine \notin module.ENGINES
    THEN [raised |-> Raise("ValueError", "unknown engine", engine), value |-> <<>>]
    ELSE IF format_ \notin module.FORMATS
    THEN [raised |-> Raise("ValueError", "unknown format", format_), value |-> <<>>]
    ELSE IF renderer # None /\ renderer \notin module.RENDERERS
    THEN [raised |-> Raise("ValueError", "unknown renderer", renderer), value |-> <<>>]
    ELSE IF formatter # None /\ formatter \notin module.FORMATTERS
    THEN [raised |-> Raise("ValueError", "unknown formatter", formatter), value |-> <<>>]
    ELSE [raised |-> NoError,
          value |-> IF lastCmd # <<>> THEN lastCmd
                    ELSE command_tokens(engine, format_, renderer, formatter)]

command(engine, format_, renderer, formatter) ==
    IF formatter # None /\ renderer = None
    THEN [raised |-> Raise("RequiredArgumentError", "formatter given without renderer", None),
          value |-> <<>>]
    ELSE IF engine \notin module.ENGINES
    THEN [raised |-> Raise("ValueError", "unknown engine", engine), value |-> <<>>]
    ELSE IF format_ \notin module.FORMATS
    THEN [raised |-> Raise("ValueError", "unknown format", format_), value |-> <<>>]
    ELSE IF renderer # None /\ renderer \notin module.RENDERERS
    THEN [raised |-> Raise("ValueError", "unknown renderer", renderer), value |-> <<>>]
    ELSE IF formatter # None /\ formatter \notin module.FORMATTERS
    THEN [raised |-> Raise("ValueError", "unknown formatter", formatter), value |-> <<>>]
    ELSE [raised |-> NoError,
          value |-> command_tokens(engine, format_, renderer, formatter)]

-----------------------------------------------------------------------------
(* os.path (posixpath), as render uses it *)

RECURSIVE rfind(_, _)
rfind(p, c) ==
    IF Len(p) = 0 THEN 0
    ELSE IF p[Len(p)] = c THEN Len(p)
    ELSE rfind(SubSeq(p, 1, Len(p) - 1), c)

RECURSIVE rstrip(_, _)
rstrip(p, c) ==
    IF Len(p) > 0 /\ p[Len(p)] = c THEN rstrip(SubSeq(p, 1, Len(p) - 1), c)
    ELSE p

os_path_split(p) ==
    LET i == rfind(p, "/")
        head == SubSeq(p, 1, i)
        tail == SubSeq(p, i + 1, Len(p))
    IN  IF head # <<>> /\ Range(head) # {"/"}
        THEN <<rstrip(head, "/"), tail>>
        ELSE <<head, tail>>

os_path_join(a, b) ==
    IF Len(b) > 0 /\ b[1] = "/" THEN b
    ELSE IF a = <<>> \/ a[Len(a)] = "/" THEN a \o b
    ELSE a \o <<"/">> \o b

-----------------------------------------------------------------------------
(* str.encode and bytes.decode for the codecs 'ascii' and 'utf-8' *)

eacute == "U+00E9"

ascii == <<"a", "s", "c", "i", "i">>

utf_8 == <<"u", "t", "f", "-", "8">>

ord(c) ==
    CASE c = "g" -> 103
      [] c = "<" -> 60
      [] c = "\n" -> 10
      [] c = eacute -> 233

chr(n) ==
    CASE n = 103 -> "g"
      [] n = 60 -> "<"
      [] n = 10 -> "\n"
      [] n = 233 -> eacute

encode_char(c, encoding) ==
    IF ord(c) < 128 THEN <<ord(c)>>
    ELSE IF encoding = utf_8 THEN <<192 + (ord(c) \div 64), 128 + (ord(c) % 64)>>
    ELSE <<>>

RECURSIVE encode_chars(_, _)
encode_chars(s, encoding) ==
    IF Len(s) = 0 THEN <<>>
    ELSE encode_char(s[1], encoding) \o encode_chars(Tail(s), encoding)

str_encode(s, encoding) ==
    IF \E i \in 1..Len(s) : encode_char(s[i], encoding) = <<>>
    THEN [raised |-> Raise("UnicodeEncodeError", "codec can't encode character", s),
          value |-> <<>>]
    ELSE [raised |-> NoError, value |-> encode_chars(s, encoding)]

RECURSIVE decode_bytes(_, _)
decode_bytes(b, encoding) ==
    IF Len(b) = 0 THEN [ok |-> TRUE, value |-> <<>>]
    ELSE IF b[1] < 128
    THEN LET rest == decode_bytes(Tail(b), encoding)
         IN  [ok |-> rest.ok, value |-> <<chr(b[1])>> \o rest.value]
    ELSE IF encoding = utf_8 /\ Len(b) >= 2 /\ b[1] \in 194..223 /\ b[2] \in 128..191
    THEN LET rest == decode_bytes(Tail(Tail(b)), encoding)
         IN  [ok |-> rest.ok,
              value |-> <<chr((b[1] - 192) * 64 + (b[2] - 128))>> \o rest.value]
    ELSE [ok |-> FALSE, value |-> <<>>]

bytes_decode(b, encoding) ==
    LET d == decode_bytes(b, encoding)
    IN  IF d.ok THEN [raised |-> NoError, value |-> d.value]
        ELSE [raised |-> Raise("UnicodeDecodeError", "codec can't decode byte", None),
              value |-> <<>>]

-----------------------------------------------------------------------------
(* The operations, up to their call of execute.run_check.  Each yields      *)
(*   raised: the exception that left the operation before the runner call,  *)
(*   frame:  the local variables at the runner call,                        *)
(*   run:    the runner calls made, each with the arguments passed,         *)
(*   pulled: the items taken from input_lines before the runner call.       *)

RunCheck(cmd, cwd, quiet, stdin, input, encoding, input_lines) ==
    [cmd |-> cmd, capture_output |-> TRUE, cwd |-> cwd, quiet |-> quiet,
     stdin |-> stdin, input |-> input, encoding |-> encoding,
     input_lines |-> input_lines]

Entered(raised, locals, run, pulled) ==
    [raised |-> raised, frame |-> locals, run |-> run, pulled |-> pulled]

NoFrame == [cmd |-> <<>>]

suffix_elements_as_flag(formatter, renderer, format) ==
    NotNone(<<format, renderer, formatter>>)

suffix_elements(formatter, renderer, format) ==
    NotNone(<<formatter, renderer, format>>)

render_rendered_no_dirname(dirname, filename, suffix) ==
    filename \o <<".">> \o suffix

render_rendered(dirname, filename, suffix) ==
    LET rendered == filename \o <<".">> \o suffix
    IN  IF dirname # <<>> THEN os_path_join(dirname, rendered) ELSE rendered

render_cwd_dirname(dirname) == dirname

render_cwd(dirname) ==
    IF dirname # <<>> THEN dirname ELSE None

render_enter(engine, format, filepath, renderer, formatter, quiet) ==
    LET dirname == os_path_split(filepath)[1]
        filename == os_path_split(filepath)[2]
        c == command(engine, format, renderer, formatter)
        cmd == c.value \o << <<"-", "O">>, filename >>
        elements == suffix_elements(formatter, renderer, format)
        suffix == join(<<".">>, elements)
        rendered == render_rendered(dirname, filename, suffix)
        cwd == render_cwd(dirname)
    IN  IF c.raised # NoError THEN Entered(c.raised, NoFrame, <<>>, 0)
        ELSE Entered(NoError,
                     [cmd |-> cmd, dirname |-> dirname, filename |-> filename,
                      suffix_elements |-> elements, suffix |-> suffix,
                      rendered |-> rendered, cwd |-> cwd],
                     << RunCheck(cmd, cwd, quiet, "none", <<>>, None, "none") >>,
                     0)

pipe_enter(engine, format, data, renderer, formatter, quiet) ==
    LET c == command(engine, format, renderer, formatter)
    IN  IF c.raised # NoError THEN Entered(c.raised, NoFrame, <<>>, 0)
        ELSE Entered(NoError, [cmd |-> c.value],
                     << RunCheck(c.value, None, quiet, "input", data, None, "none") >>,
                     0)

pipe_string_enter(engine, format, input_string, encoding, renderer, formatter, quiet) ==
    LET c == command(engine, format, renderer, formatter)
    IN  IF c.raised # NoError THEN Entered(c.raised, NoFrame, <<>>, 0)
        ELSE Entered(NoError, [cmd |-> c.value],
                     << RunCheck(c.value, None, quiet, "input", input_string,
                                 encoding, "none") >>,
                     0)

listcomp_new(input_lines, input_encoding) ==
    [encoding |-> input_encoding, pulled |-> Len(input_lines)]

genexpr_new(input_lines, input_encoding) ==
    [encoding |-> input_encoding, pulled |-> 0]

genexpr_next(g, line) == str_encode(line, g.genexpr.encoding)

pipe_lines_enter(engine, format, input_lines, input_encoding, renderer, formatter, quiet) ==
    LET c == command(engine, format, renderer, formatter)
        g == genexpr_new(input_lines, input_encoding)
    IN  IF c.raised # NoError THEN Entered(c.raised, NoFrame, <<>>, 0)
        ELSE Entered(NoError, [cmd |-> c.value, genexpr |-> g],
                     << RunCheck(c.value, None, quiet, "input_lines", <<>>, None,
                                 "genexpr") >>,
                     g.pulled)

pipe_lines_string_enter(engine, format, input_lines, encoding, renderer, formatter, quiet) ==
    LET c == command(engine, format, renderer, formatter)
    IN  IF c.raised # NoError THEN Entered(c.raised, NoFrame, <<>>, 0)
        ELSE Entered(NoError, [cmd |-> c.value],
                     << RunCheck(c.value, None, quiet, "input_lines", <<>>, encoding,
                                 "iterator") >>,
                     0)

(* The operations, from the end of execute.run_check on: an exception of   *)
(* the runner leaves the operation, otherwise the result is returned.      *)

Returned(value) == [kind |-> "return", exc |-> NoError, value |-> value]

Raised(exc) == [kind |-> "raise", exc |-> exc, value |-> <<>>]

NoOutcome == [kind |-> "none", exc |-> NoError, value |-> <<>>]

render_return_swallow(f, p) == Returned(f.rendered)

render_return(f, p) ==
    IF p.raised # NoError THEN Raised(p.raised) ELSE Returned(f.rendered)

pipe_return(f, p) ==
    IF p.raised # NoError THEN Raised(p.raised) ELSE Returned(p.stdout)

operation_return(o, f, p) ==
    IF o = "render" THEN render_return(f, p) ELSE pipe_return(f, p)

-----------------------------------------------------------------------------
(* The process runner execute.run_check, as the operations see it *)

Stdouts == { <<60>>, <<195, 169>> }

Proc(raised, stdout) == [finished |-> TRUE, raised |-> raised, stdout |-> stdout]

NoProc == [finished |-> FALSE, raised |-> NoError, stdout |-> <<>>]

ExecutableNotFound == Raise("ExecutableNotFound", "failed to execute", None)

CalledProcessError == Raise("CalledProcessError", "returned non-zero exit status", None)

run_check_exits(call) ==
    {Proc(CalledProcessError, <<>>)}
    \cup {IF call.encoding = None THEN Proc(NoError, out)
          ELSE Proc(bytes_decode(out, call.encoding).raised,
                    bytes_decode(out, call.encoding).value) : out \in Stdouts}

run_check_results(call, lines, taken) ==
    IF call.stdin = "input_lines"
    THEN IF taken = 0 /\ Len(lines) > 0 THEN {Proc(ExecutableNotFound, <<>>)}
         ELSE IF taken < Len(lines) THEN {}
         ELSE (IF taken = 0 THEN {Proc(ExecutableNotFound, <<>>)} ELSE {})
              \cup run_check_exits(call)
    ELSE {Proc(ExecutableNotFound, <<>>)}
         \cup (IF call.stdin = "input" /\ call.encoding # None
                   /\ str_encode(call.input, call.encoding).raised # NoError
               THEN {Proc(str_encode(call.input, call.encoding).raised, <<>>)}
               ELSE run_check_exits(call))

run_check_next(call, g, line) ==
    IF call.input_lines = "genexpr"
    THEN LET item == genexpr_next(g, line)
         IN  [raised |-> item.raised,
              received |-> IF item.raised = NoError THEN <<item.value>> ELSE <<>>]
    ELSE [raised |-> str_encode(line, call.encoding).raised, received |-> <<line>>]

-----------------------------------------------------------------------------
(* The arguments callers pass *)

SeqsUpTo(S, n) == UNION {[1..k -> S] : k \in 0..n}

Unknown == <<"x">>

EngineInputs == ENGINES \cup {Unknown}

FormatInputs == FORMATS \cup {Unknown}

RendererInputs == RENDERERS \cup {None, Unknown}

FormatterInputs == FORMATTERS \cup {None, Unknown}

ExamplePath == <<"a", "/", "b", "/", "g", "r", "a", "p", "h", ".", "g", "v">>

DoubleSlashPath == <<"g", "/", "/", "g">>

FilePaths == SeqsUpTo({"g", "/"}, MaxPathLen) \cup {ExamplePath, DoubleSlashPath}

DataInputs == { <<>>, <<103>> }

StringInputs == { <<"g">>, <<eacute>> }

LineInputs == SeqsUpTo({ <<"g", "\n">>, <<eacute, "\n">> }, MaxLines)

Encodings == {ascii, utf_8}

Operations == {"render", "pipe", "pipe_string", "pipe_lines", "pipe_lines_string"}

-----------------------------------------------------------------------------
(* The state machine *)

NoArgs == [engine |-> None, format |-> None, renderer |-> None, formatter |-> None]

Init ==
    /\ pc = "idle"
    /\ op = "none"
    /\ args = NoArgs
    /\ frame = NoFrame
    /\ runnerCalls = <<>>
    /\ input_pos = 0
    /\ requested = 0
    /\ delivered = <<>>
    /\ proc = NoProc
    /\ outcome = NoOutcome
    /\ lastCmd = <<>>
    /\ module = ModuleInit

Enter(o, a, r) ==
    /\ op' = o
    /\ args' = a
    /\ frame' = r.frame
    /\ runnerCalls' = r.run
    /\ input_pos' = r.pulled
    /\ requested' = 0
    /\ delivered' = <<>>
    /\ proc' = NoProc
    /\ IF r.raised # NoError
       THEN pc' = "done" /\ outcome' = Raised(r.raised)
       ELSE pc' = "running" /\ outcome' = NoOutcome
    /\ UNCHANGED <<lastCmd, module>>

Call_command ==
    /\ pc = "idle"
    /\ \E engine \in EngineInputs, format \in FormatInputs,
       renderer \in RendererInputs, formatter \in FormatterInputs :
        LET c == command(engine, format, renderer, formatter)
        IN  /\ op' = "command"
            /\ args' = [engine |-> engine, format |-> format,
                        renderer |-> renderer, formatter |-> formatter]
            /\ frame' = NoFrame
            /\ runnerCalls' = <<>>
            /\ input_pos' = 0
            /\ requested' = 0
            /\ delivered' = <<>>
            /\ proc' = NoProc
            /\ pc' = "done"
            /\ outcome' = IF c.raised # NoError THEN Raised(c.raised)
                          ELSE Returned(c.value)
            /\ UNCHANGED <<lastCmd, module>>

Call_render ==
    /\ pc = "idle"
    /\ \E engine \in EngineInputs, format \in FormatInputs,
       renderer \in RendererInputs, formatter \in FormatterInputs,
       filepath \in FilePaths, quiet \in BOOLEAN :
        Enter("render",
              [engine |-> engine, format |-> format, renderer |-> renderer,
               formatter |-> formatter, filepath |-> filepath, quiet |-> quiet],
              render_enter(engine, format, filepath, renderer, formatter, quiet))

Call_pipe ==
    /\ pc = "idle"
    /\ \E engine \in EngineInputs, format \in FormatInputs,
       renderer \in RendererInputs, formatter \in FormatterInputs,
       data \in DataInputs, quiet \in BOOLEAN :
        Enter("pipe",
              [engine |-> engine, format |-> format, renderer |-> renderer,
               formatter |-> formatter, data |-> data, quiet |-> quiet],
              pipe_enter(engine, format, data, renderer, formatter, quiet))

Call_pipe_string ==
    /\ pc = "idle"
    /\ \E engine \in EngineInputs, format \in FormatInputs,
       renderer \in RendererInputs, formatter \in FormatterInputs,
       input_string \in StringInputs, encoding \in Encodings, quiet \in BOOLEAN :
        Enter("pipe_string",
              [engine |-> engine, format |-> format, renderer |-> renderer,
               formatter |-> formatter, input_string |-> input_string,
               encoding |-> encoding, quiet |-> quiet],
              pipe_string_enter(engine, format, input_string, encoding,
                                renderer, formatter, quiet))

Call_pipe_lines ==
    /\ pc = "idle"
    /\ \E engine \in EngineInputs, format \in FormatInputs,
       renderer \in RendererInputs, formatter \in FormatterInputs,
       input_lines \in LineInputs, input_encoding \in Encodings, quiet \in BOOLEAN :
        Enter("pipe_lines",
              [engine |-> engine, format |-> format, renderer |-> renderer,
               formatter |-> formatter, input_lines |-> input_lines,
               input_encoding |-> input_encoding, quiet |-> quiet],
              pipe_lines_enter(engine, format, input_lines, input_encoding,
                               renderer, formatter, quiet))

Call_pipe_lines_string ==
    /\ pc = "idle"
    /\ \E engine \in EngineInputs, format \in FormatInputs,
       renderer \in RendererInputs, formatter \in FormatterInputs,
       input_lines \in LineInputs, encoding \in Encodings, quiet \in BOOLEAN :
        Enter("pipe_lines_string",
              [engine |-> engine, format |-> format, renderer |-> renderer,
               formatter |-> formatter, input_lines |-> input_lines,
               encoding |-> encoding, quiet |-> quiet],
              pipe_lines_string_enter(engine, format, input_lines, encoding,
                                      renderer, formatter, quiet))

RunnerNext ==
    /\ pc = "running"
    /\ runnerCalls[1].stdin = "input_lines"
    /\ input_pos < Len(args.input_lines)
    /\ LET line == args.input_lines[input_pos + 1]
           n == run_check_next(runnerCalls[1], frame, line)
       IN  /\ input_pos' = input_pos + 1
           /\ requested' = requested + 1
           /\ delivered' = delivered \o n.received
           /\ IF n.raised # NoError
              THEN /\ pc' = "done"
                   /\ proc' = Proc(n.raised, <<>>)
                   /\ outcome' = operation_return(op, frame, Proc(n.raised, <<>>))
              ELSE UNCHANGED <<pc, proc, outcome>>
    /\ UNCHANGED <<op, args, frame, runnerCalls, lastCmd, module>>

RunnerFinish ==
    /\ pc = "running"
    /\ \E p \in run_check_results(runnerCalls[1],
                                  IF runnerCalls[1].stdin = "input_lines"
                                  THEN args.input_lines ELSE <<>>,
                                  requested) :
        /\ pc' = "done"
        /\ proc' = p
        /\ outcome' = operation_return(op, frame, p)
    /\ UNCHANGED <<op, args, frame, runnerCalls, input_pos, requested, delivered,
                   lastCmd, module>>

Return ==
    /\ pc = "done"
    /\ pc' = "idle"
    /\ op' = "none"
    /\ args' = NoArgs
    /\ frame' = NoFrame
    /\ runnerCalls' = <<>>
    /\ input_pos' = 0
    /\ requested' = 0
    /\ delivered' = <<>>
    /\ proc' = NoProc
    /\ outcome' = NoOutcome
    /\ lastCmd' = IF Len(runnerCalls) > 0 THEN runnerCalls[1].cmd ELSE lastCmd
    /\ UNCHANGED module

Next ==
    \/ Call_command
    \/ Call_render
    \/ Call_pipe
    \/ Call_pipe_string
    \/ Call_pipe_lines
    \/ Call_pipe_lines_string
    \/ RunnerNext
    \/ RunnerFinish
    \/ Return

Spec == Init /\ [][Next]_vars

-----------------------------------------------------------------------------
(* What the claims speak of, stated on the arguments of the current call *)

FormatterWithoutRenderer(a) == a.formatter # None /\ a.renderer = None

AnyUnknown(a) ==
    \/ a.engine \notin ENGINES
    \/ a.format \notin FORMATS
    \/ a.renderer # None /\ a.renderer \notin RENDERERS
    \/ a.formatter # None /\ a.formatter \notin FORMATTERS

ArgsValid(a) == ~FormatterWithoutRenderer(a) /\ ~AnyUnknown(a)

FlagOf(a) ==
    IF a.renderer = None THEN a.format
    ELSE IF a.formatter = None THEN a.format \o <<":">> \o a.renderer
    ELSE a.format \o <<":">> \o a.renderer \o <<":">> \o a.formatter

SuffixOf(a) ==
    IF a.renderer = None THEN a.format
    ELSE IF a.formatter = None THEN a.renderer \o <<".">> \o a.format
    ELSE a.formatter \o <<".">> \o a.renderer \o <<".">> \o a.format

InvocationOf(a) ==
    << DOT_BINARY, <<"-", "K">> \o a.engine, <<"-", "T">> \o FlagOf(a) >>

LastSlash(p) ==
    IF "/" \in Range(p)
    THEN CHOOSE i \in 1..Len(p) : p[i] = "/" /\ \A j \in (i + 1)..Len(p) : p[j] # "/"
    ELSE 0

FilenameOf(p) == SubSeq(p, LastSlash(p) + 1, Len(p))

DirectoryOf(p) ==
    LET h == SubSeq(p, 1, LastSlash(p))
        k == CHOOSE n \in 0..Len(h) :
                 /\ \A j \in (n + 1)..Len(h) : h[j] = "/"
                 /\ n = 0 \/ h[n] # "/"
    IN  IF k = 0 THEN h ELSE SubSeq(h, 1, k)

RenderedOf(a) ==
    LET d == DirectoryOf(a.filepath)
        name == FilenameOf(a.filepath) \o <<".">> \o SuffixOf(a)
    IN  IF d = <<>> THEN name
        ELSE IF d[Len(d)] = "/" THEN d \o name
        ELSE d \o <<"/">> \o name

Reverse(x) == [i \in 1..Len(x) |-> x[Len(x) + 1 - i]]

ElementSeqs(a) == SeqsUpTo({a.format, a.renderer, a.formatter} \ {None}, 3)

Encodable(line, encoding) == encoding = utf_8 \/ eacute \notin Range(line)

EncodedLine(line, encoding) ==
    IF line = <<"g", "\n">> THEN <<103, 10>> ELSE <<195, 169, 10>>

AtRunner == Len(runnerCalls) > 0

-----------------------------------------------------------------------------
(* C1: for valid engine, format, renderer (or none) and formatter (or none, *)
(* given only with a renderer), command returns exactly the three tokens    *)
(* [DOT_BINARY, '-K' + engine, '-T' + flag], where flag is format,          *)
(* format:renderer or format:renderer:formatter.                            *)
C1_CommandTokens ==
    (op = "command" /\ pc = "done" /\ ArgsValid(args)) =>
        /\ outcome.kind = "return"
        /\ outcome.value = << DOT_BINARY,
                              <<"-", "K">> \o args.engine,
                              <<"-", "T">> \o FlagOf(args) >>

C1_Witness ==
    /\ op = "command" /\ pc = "done" /\ ArgsValid(args)
    /\ args.renderer # None /\ args.formatter # None
    /\ args.renderer # args.formatter
    /\ outcome.kind = "return"

(* C2: command raises RequiredArgumentError whenever formatter is given and *)
(* renderer is absent, whatever engine, format and formatter are, and       *)
(* returns no invocation.                                                   *)
C2_FormatterNeedsRenderer ==
    (op = "command" /\ pc = "done" /\ FormatterWithoutRenderer(args)) =>
        /\ outcome.kind = "raise"
        /\ outcome.exc.type = "RequiredArgumentError"
        /\ outcome.value = <<>>

C2_Witness ==
    /\ op = "command" /\ pc = "done" /\ FormatterWithoutRenderer(args)
    /\ args.engine \notin ENGINES /\ args.format \notin FORMATS
    /\ args.formatter \notin FORMATTERS
    /\ outcome.exc.type = "RequiredArgumentError"

(* C3, as claimed: command raises ValueError whenever one of engine,        *)
(* format, a given renderer or a given formatter is unknown, for every      *)
(* combination of the other arguments.                                      *)
C3_UnknownAlwaysValueError ==
    (op = "command" /\ pc = "done" /\ AnyUnknown(args)) =>
        /\ outcome.kind = "raise"
        /\ outcome.exc.type = "ValueError"

(* C3, amended: command raises ValueError whenever one of engine, format, a *)
(* given renderer or a given formatter is unknown, for every combination of *)
(* the other arguments in which it is not the case that formatter is given  *)
(* while renderer is absent.                                                *)
C3_UnknownValueError ==
    (op = "command" /\ pc = "done" /\ AnyUnknown(args)
        /\ ~FormatterWithoutRenderer(args)) =>
        /\ outcome.kind = "raise"
        /\ outcome.exc.type = "ValueError"
        /\ outcome.value = <<>>

C3_Witness ==
    /\ op = "command" /\ pc = "done"
    /\ args.engine \in ENGINES /\ args.format \in FORMATS
    /\ args.renderer \in RENDERERS
    /\ args.formatter # None /\ args.formatter \notin FORMATTERS
    /\ outcome.exc.type = "ValueError"

(* C4, as claimed: in render, the elements colon-joined into the -T flag    *)
(* and the elements dot-joined into the suffix are one and the same         *)
(* sequence, in the same order.                                             *)
C4_SameOrder ==
    (op = "render" /\ AtRunner) =>
        \E x \in ElementSeqs(args) :
            /\ runnerCalls[1].cmd[3] = <<"-", "T">> \o join(<<":">>, x)
            /\ frame.suffix = join(<<".">>, x)

(* C4, amended: in render, the elements dot-joined into the suffix are the  *)
(* elements colon-joined into the -T flag (those of format, renderer,       *)
(* formatter that are present) in the reverse order.                        *)
C4_ReverseOrder ==
    (op = "render" /\ AtRunner) =>
        \E x \in ElementSeqs(args) :
            /\ x = NotNone(<<args.format, args.renderer, args.formatter>>)
            /\ runnerCalls[1].cmd[3] = <<"-", "T">> \o join(<<":">>, x)
            /\ frame.suffix = join(<<".">>, Reverse(x))

C4_Witness ==
    /\ op = "render" /\ AtRunner
    /\ args.renderer # None /\ args.formatter # None
    /\ args.renderer # args.formatter

(* C5: a render that succeeds returns filename + '.' + suffix, the suffix   *)
(* being the present ones of formatter, renderer, format joined by dots,    *)
(* joined to the directory exactly when the directory is not empty;         *)
(* 'a/b/graph.gv' with dot and svg gives 'a/b/graph.gv.svg', and a path     *)
(* without a directory gives the bare file name.                            *)
C5_RenderedPath ==
    (op = "render" /\ outcome.kind = "return") =>
        /\ outcome.value = RenderedOf(args)
        /\ (args.filepath = ExamplePath /\ args.format = <<"s", "v", "g">>
                /\ args.renderer = None) =>
            outcome.value = <<"a", "/", "b", "/", "g", "r", "a", "p", "h", ".",
                              "g", "v", ".", "s", "v", "g">>
        /\ "/" \notin Range(args.filepath) =>
            outcome.value = args.filepath \o <<".">> \o SuffixOf(args)

C5_Witness ==
    /\ op = "render" /\ outcome.kind = "return"
    /\ args.filepath = ExamplePath /\ args.engine = <<"d", "o", "t">>
    /\ args.format = <<"s", "v", "g">>
    /\ args.renderer = None /\ args.formatter = None

(* C6: in each of the five operations, arguments that fail validation make  *)
(* the operation raise the validation error without calling the runner and  *)
(* without pulling a line from input_lines.                                 *)
C6_NoRunnerOnInvalid ==
    (op \in Operations /\ ~ArgsValid(args)) =>
        /\ pc = "done"
        /\ outcome.kind = "raise"
        /\ outcome.exc.type = IF FormatterWithoutRenderer(args)
                              THEN "RequiredArgumentError" ELSE "ValueError"
        /\ runnerCalls = <<>>
        /\ ~proc.finished
        /\ input_pos = 0 /\ requested = 0 /\ delivered = <<>>

C6_Witness ==
    /\ op = "pipe_lines" /\ pc = "done"
    /\ args.engine \notin ENGINES /\ ~FormatterWithoutRenderer(args)
    /\ Len(args.input_lines) > 0
    /\ outcome.exc.type = "ValueError"

(* C7: an operation whose arguments pass validation calls the runner        *)
(* exactly once, ends only after that call has ended, and raises the        *)
(* runner's failure instead of returning a result.                          *)
C7_RunnerOnce ==
    (op \in Operations /\ ArgsValid(args)) =>
        /\ Len(runnerCalls) = 1
        /\ pc \in {"running", "done"}
        /\ pc = "running" => (~proc.finished /\ outcome = NoOutcome)
        /\ pc = "done" =>
            /\ proc.finished
            /\ proc.raised # NoError => outcome = Raised(proc.raised)
            /\ proc.raised = NoError => outcome.kind = "return"

C7_Witness ==
    /\ op = "render" /\ pc = "done" /\ ArgsValid(args)
    /\ proc.finished /\ proc.raised.type = "CalledProcessError"
    /\ outcome.kind = "raise"

(* C8: the runner call of render gets [DOT_BINARY, '-K' + engine,           *)
(* '-T' + flag, '-O', filename] with the bare file name last, no stdin      *)
(* payload, and as working directory the directory of filepath, or None     *)
(* (never an empty path) when filepath has no directory.                    *)
C8_RenderRunnerCall ==
    (op = "render" /\ AtRunner) =>
        /\ runnerCalls[1].cmd = InvocationOf(args)
                                \o << <<"-", "O">>, FilenameOf(args.filepath) >>
        /\ "/" \notin Range(runnerCalls[1].cmd[5])
        /\ runnerCalls[1].stdin = "none"
        /\ runnerCalls[1].capture_output
        /\ runnerCalls[1].quiet = args.quiet
        /\ runnerCalls[1].cwd # <<>>
        /\ runnerCalls[1].cwd = IF "/" \in Range(args.filepath)
                                THEN DirectoryOf(args.filepath) ELSE None

C8_Witness ==
    /\ op = "render" /\ pc = "running"
    /\ args.filepath = <<"g">>
    /\ runnerCalls[1].cwd = None

(* C9: in pipe_lines the lines are pulled and encoded one by one as the     *)
(* runner asks: the lines pulled are as many as the runner has requested,   *)
(* the i-th item delivered is the i-th line encoded with input_encoding,    *)
(* and an encoding failure on line i comes at request i, after the items    *)
(* before it were delivered.                                                *)
C9_LazyLines ==
    (op = "pipe_lines" /\ AtRunner) =>
        /\ input_pos = requested
        /\ requested <= Len(args.input_lines)
        /\ \A i \in 1..Len(delivered) :
            /\ Encodable(args.input_lines[i], args.input_encoding)
            /\ delivered[i] = EncodedLine(args.input_lines[i], args.input_encoding)
        /\ IF proc.raised.type = "UnicodeEncodeError"
           THEN /\ requested >= 1
                /\ ~Encodable(args.input_lines[requested], args.input_encoding)
                /\ Len(delivered) = requested - 1
           ELSE Len(delivered) = requested

C9_Witness ==
    /\ op = "pipe_lines" /\ pc = "done"
    /\ requested = 2 /\ Len(delivered) = 1
    /\ proc.raised.type = "UnicodeEncodeError"

(* C10: no state is shared between calls: the invocation a call hands to    *)
(* the runner is that of its own arguments, the '-O', filename of an        *)
(* earlier render is in no later invocation, and DOT_BINARY and the         *)
(* registry sets stay as they are.                                          *)
C10_NoSharedState ==
    /\ module = ModuleInit
    /\ AtRunner =>
        /\ SubSeq(runnerCalls[1].cmd, 1, 3) = InvocationOf(args)
        /\ op # "render" =>
            /\ Len(runnerCalls[1].cmd) = 3
            /\ <<"-", "O">> \notin Range(runnerCalls[1].cmd)
        /\ op = "render" =>
            /\ Len(runnerCalls[1].cmd) = 5
            /\ {i \in 1..5 : runnerCalls[1].cmd[i] = <<"-", "O">>} = {4}

C10_Witness ==
    /\ op \in {"pipe", "pipe_string", "pipe_lines", "pipe_lines_string"}
    /\ pc = "running"
    /\ Len(lastCmd) = 5

====
